---- MODULE Spec2Model ----
(***************************************************************************)
(* Model of cmd/main.go of the audio bot: the update loop that starts one  *)
(* goroutine per inbound message, the counting gate (a buffered channel),  *)
(* the dispatch on the message, and the two pipelines                      *)
(* (handleVoiceMessage, handleYoutubeVideoInfoProcessing) with the files   *)
(* they create and remove.                                                 *)
(*                                                                         *)
(* Environment assumptions, stated once:                                   *)
(*  - os.Remove of an existing file deletes it;                            *)
(*  - os.Stat may fail with an error other than "not exist" whatever the   *)
(*    file's state (main.go handles that outcome at lines 302-305);        *)
(*  - every external call returns (the model has no hung call);            *)
(*  - strings are sequences of tokens: "w" a word character, "-" a dash,   *)
(*    "?" another non-space character, " " a space; the fixed pieces of a  *)
(*    link are one token each.                                             *)
(***************************************************************************)
EXTENDS Integers, Sequences, FiniteSets, Bags, TLC

\* ------------------------------------------------------------ constants
concurrencyLimit == 10

maxMessageTextLength == 4096

\* bounds of the model
MaxUpdates == 2
FloodUpdates == 11
NumNames == 2

menuCommandRecognize == "menu: recognize speech"
menuCommandInfo == "menu: information"
menuCommandSettings == "menu: settings"
menuCommandYoutubeInfo == "menu: youtube video info"

\* ------------------------------------------------------- isValidYoutubeLink
\* ^(https?://)?(www\.)?(youtube\.com/watch\?v=|youtu\.be/|youtube\.com/shorts/)[\w-]+(\S*)?$
SchemeTokens == {"http://", "https://"}
HostPathTokens == {"youtube.com/watch?v=", "youtu.be/", "youtube.com/shorts/"}

IsWordOrDash(t) == t \in {"w", "-"}

IsSpace(t) == t = " "

DropOptional(s, S) == IF Len(s) > 0 /\ Head(s) \in S THEN Tail(s) ELSE s

isValidYoutubeLinkNoAnchor(url) ==
    LET a == DropOptional(url, SchemeTokens)
        b == DropOptional(a, {"www."})
    IN  /\ Len(b) >= 2
        /\ b[1] \in HostPathTokens
        /\ IsWordOrDash(b[2])

isValidYoutubeLink(url) ==
    LET a == DropOptional(url, SchemeTokens)
        b == DropOptional(a, {"www."})
    IN  /\ Len(b) >= 2
        /\ b[1] \in HostPathTokens
        /\ IsWordOrDash(b[2])
        /\ \A k \in 3..Len(b) : ~IsSpace(b[k])

\* ------------------------------------------------------------ messages
\* A tgbotapi.Message as main() reads it: IsCommand()/Command(), Text, Voice.
Msg(c, t, v) == [command |-> c, text |-> t, voice |-> v]

ValidUrls ==
    { <<"https://", "www.", "youtube.com/watch?v=", "w", "?">>,
      <<"youtu.be/", "-">> }

InvalidUrls ==
    { <<"https://", "example.com/", "w">>,
      <<"https://", "youtube.com/shorts/">>,
      <<"ftp://", "youtu.be/", "w">>,
      <<"https://", "youtu.be/", "w", " ", "w">> }

MenuTexts ==
    { <<menuCommandRecognize>>, <<menuCommandInfo>>,
      <<menuCommandSettings>>, <<menuCommandYoutubeInfo>> }

\* What the chat transport delivers: a command, a text (a menu button, a link,
\* anything else), a voice note (no text), or a message with neither.
Messages ==
    { Msg(c, <<"/", "w">>, FALSE) : c \in {"start", "help"} }
    \cup { Msg("", t, FALSE) : t \in MenuTexts \cup ValidUrls \cup InvalidUrls \cup {<<"w">>} }
    \cup { Msg("", <<>>, TRUE), Msg("", <<>>, FALSE) }

\* ------------------------------------------------------- recognizeSpeech
\* An error value: the format string that built it and the provider message it
\* embeds ("none" when the format embeds none).
Err(k, m) == [kind |-> k, provider |-> m]

NoErr == Err("nil", "none")

\* What the transcription endpoint answers: whether the request was built,
\* sent and its body read without error, the HTTP status, whether the body
\* unmarshals, and the body's text and error fields ("none": no error field).
Resp(tr, st, pa, tx, er) ==
    [transport |-> tr, status |-> st, parse |-> pa, text |-> tx, error |-> er]

TranscriptionResponses ==
    { Resp(FALSE, 0, FALSE, "", "none"),
      Resp(TRUE, 200, TRUE, "t", "none"),
      Resp(TRUE, 200, TRUE, "", "none"),
      Resp(TRUE, 200, TRUE, "", "quota"),
      Resp(TRUE, 200, FALSE, "", "none"),
      Resp(TRUE, 500, TRUE, "", "quota"),
      Resp(TRUE, 500, TRUE, "", "none"),
      Resp(TRUE, 500, FALSE, "", "none") }

Ret(t, e) == [text |-> t, err |-> e]

recognizeSpeechEmptyIsError(opened, r) ==
    IF ~opened THEN Ret("", Err("failed to open audio file", "none"))
    ELSE IF ~r.transport THEN Ret("", Err("failed to execute HTTP request", "none"))
    ELSE IF r.status # 200 THEN
        IF r.parse /\ r.error # "none"
        THEN Ret("", Err("Bothub API error", r.error))
        ELSE Ret("", Err("request failed with status and body", "none"))
    ELSE IF ~r.parse THEN Ret("", Err("failed to unmarshal JSON response", "none"))
    ELSE IF r.error # "none" THEN Ret("", Err("error in JSON response", r.error))
    ELSE IF r.text = "" THEN Ret("", Err("no text", "none"))
    ELSE Ret(r.text, NoErr)

recognizeSpeechGenericOnly(opened, r) ==
    IF ~opened THEN Ret("", Err("failed to open audio file", "none"))
    ELSE IF ~r.transport THEN Ret("", Err("failed to execute HTTP request", "none"))
    ELSE IF r.status # 200
    THEN Ret("", Err("request failed with status and body", "none"))
    ELSE IF ~r.parse THEN Ret("", Err("failed to unmarshal JSON response", "none"))
    ELSE IF r.error # "none" THEN Ret("", Err("error in JSON response", r.error))
    ELSE Ret(r.text, NoErr)

recognizeSpeech(opened, r) ==
    IF ~opened THEN Ret("", Err("failed to open audio file", "none"))
    ELSE IF ~r.transport THEN Ret("", Err("failed to execute HTTP request", "none"))
    ELSE IF r.status # 200 THEN
        IF r.parse /\ r.error # "none"
        THEN Ret("", Err("Bothub API error", r.error))
        ELSE Ret("", Err("request failed with status and body", "none"))
    ELSE IF ~r.parse THEN Ret("", Err("failed to unmarshal JSON response", "none"))
    ELSE IF r.error # "none" THEN Ret("", Err("error in JSON response", r.error))
    ELSE Ret(r.text, NoErr)

\* ------------------------------------------- getChatCompletionFromBothub
\* The completion endpoint's answer; content is "none" for zero choices.
ChatResp(tr, st, pa, co, er) ==
    [transport |-> tr, status |-> st, parse |-> pa, content |-> co, error |-> er]

CompletionResponses ==
    { ChatResp(FALSE, 0, FALSE, "none", "none"),
      ChatResp(TRUE, 200, TRUE, "s", "none"),
      ChatResp(TRUE, 200, TRUE, "none", "none"),
      ChatResp(TRUE, 200, TRUE, "", "none"),
      ChatResp(TRUE, 200, TRUE, "none", "overloaded"),
      ChatResp(TRUE, 500, TRUE, "none", "overloaded"),
      ChatResp(TRUE, 500, FALSE, "none", "none") }

getChatCompletionFromBothub(r) ==
    IF ~r.transport THEN Ret("", Err("failed to execute HTTP request", "none"))
    ELSE IF r.status # 200 THEN
        IF r.parse /\ r.error # "none"
        THEN Ret("", Err("Bothub Chat API error", r.error))
        ELSE Ret("", Err("request failed with status and body", "none"))
    ELSE IF ~r.parse THEN Ret("", Err("failed to unmarshal JSON response", "none"))
    ELSE IF r.error # "none" THEN Ret("", Err("error in JSON response", r.error))
    ELSE IF r.content \in {"none", ""} THEN Ret("", Err("no content in response", "none"))
    ELSE Ret(r.content, NoErr)

\* ---------------------------------------------------------------- state
\* Goroutines have no names in the program: the state holds the bag of their
\* records. A goroutine that enters a pipeline handler gets a run number, by
\* which the files made for it and its history are told apart.
VARIABLES
    runs,     \* the bag of goroutines started by the update loop, finished ones included
    spawned,  \* number of updates the loop has started a goroutine for
    started,  \* number of pipeline runs begun so far
    sem,      \* number of tokens in the semaphore channel
    disk,     \* the temporary files: path -> file (run, size) or Absent
    probe,    \* one call of recognizeSpeech on its own: the input, what it
              \* returned and what each handler would tell the user
    delivered, \* what the chat transport did with the messages of one ended
              \* run: what bot.Send returned for each of them
    cfg,      \* the configuration main() loaded: YoutubeCookiesPath
    cookieFile, \* whether there is a file at cfg.YoutubeCookiesPath
    outbox    \* one reply on its own: the text a handler built, by its
              \* length, and the texts handed to bot.Send for it

vars == <<runs, spawned, started, sem, disk, probe, delivered, cfg, cookieFile, outbox>>

\* The distinct records of the bag
Live == DOMAIN runs

Paths == {"oga", "wav", "mp3"} \X (1..NumNames)

NoPath == <<"", 0>>

Absent == [owner |-> 0, size |-> "absent"]

File(id, sz) == [owner |-> id, size |-> sz]

Call(op, ok) == [op |-> op, ok |-> ok]

\* A message handed to bot.Send: its text (the fixed part and the provider
\* message an embedded error carries), whether it is a new message or an edit,
\* and what bot.Send returned: "ok", "error", or "unread" where the code does
\* not branch on it.
Sent(t, e, via, out) == [text |-> t, provider |-> e.provider, via |-> via, out |-> out]

\* The cookies part of building yt-dlp's arguments (lines 267-278): what the
\* test of the path and os.Stat found, whether a file was there at that
\* moment, and whether "--cookies" went into the arguments.
CookieCheck(check, present, attached) ==
    [check |-> check, present |-> present, attached |-> attached]

NoCookieCheck == CookieCheck("none", FALSE, FALSE)

\* A goroutine as the update loop starts it for message m. Its local variables
\* (handler, isHandled, messageIDToEdit, the three paths, the subprocess's
\* exit, the deferred removals, the text recognizeSpeech returned without an
\* error, "none" while it has not, the error downloadAudioFromYoutube
\* returned) and, for the properties, its history: the cookies part of the
\* arguments it built for yt-dlp, the
\* component calls made with their outcome, the URLs passed to yt-dlp, the
\* messages handed to bot.Send, how the pipeline handler returned ("Failed":
\* from one of its early returns, "Completed": from its last statement), the
\* number of files made for it and of os.Remove calls it made.
NewRun(m) ==
    [id |-> 0, pc |-> "acquire", msg |-> m,
     handler |-> "", isHandled |-> FALSE, messageIDToEdit |-> 0,
     oga |-> NoPath, wav |-> NoPath, mp3 |-> NoPath, runOk |-> FALSE,
     defers |-> <<>>, recognizedText |-> "none", acquireErr |-> "nil",
     cookies |-> NoCookieCheck,
     calls |-> <<>>, tool |-> <<>>, chat |-> <<>>, result |-> "none",
     made |-> 0, removes |-> 0]

\* The goroutine ends: its local variables are gone, its history stays.
Ended(r) ==
    [r EXCEPT !.pc = "done", !.handler = "", !.isHandled = FALSE,
              !.messageIDToEdit = 0, !.oga = NoPath, !.wav = NoPath,
              !.mp3 = NoPath, !.runOk = FALSE]

\* Goroutine r takes a step and becomes r2.
Step(r, r2) == runs' = (runs (-) SetToBag({r})) (+) SetToBag({r2})

Say(r, t, e, via, out) == Append(r.chat, Sent(t, e, via, out))

Probe(opened, resp) ==
    [opened |-> opened, resp |-> resp, returned |-> FALSE, ret |-> Ret("", NoErr),
     voice |-> <<>>, video |-> <<>>]

NoProbe == Probe(FALSE, Resp(FALSE, 0, FALSE, "", "none"))

\* A reply of handler flow ("voice", "video"): which reply it is, the length
\* n of the text it embeds (a transcript, a summary, an error), the status
\* message to edit, and once it is sent the texts handed to bot.Send.
Outbox(flow, reply, n, messageIDToEdit) ==
    [flow |-> flow, reply |-> reply, n |-> n, messageIDToEdit |-> messageIDToEdit,
     replied |-> FALSE, text |-> 0, sent |-> <<>>]

NoOutbox == Outbox("", "", 0, 0)

\* cfg.YoutubeCookiesPath left empty, which main() accepts (lines 545-546)
NoCookiesConfig == [YoutubeCookiesPath |-> ""]

NoDelivery == [id |-> 0, voice |-> FALSE, result |-> "none", chat |-> <<>>]

Init ==
    /\ runs = EmptyBag
    /\ spawned = 0
    /\ started = 0
    /\ sem = 0
    /\ disk = [p \in Paths |-> Absent]
    /\ probe = NoProbe
    /\ delivered = NoDelivery
    /\ cfg = NoCookiesConfig
    /\ cookieFile = FALSE
    /\ outbox = NoOutbox

\* ------------------------------------------------------------ main loop
\* for update := range updates { go func(currentUpdate) {...}(update) }
Spawn(m, limit) ==
    /\ spawned < limit
    /\ spawned' = spawned + 1
    /\ runs' = runs (+) SetToBag({NewRun(m)})
    /\ UNCHANGED <<probe, delivered, cfg, cookieFile, outbox, started, sem, disk>>

\* semaphore <- struct{}{}: blocks while the channel holds concurrencyLimit tokens
AcquireNoLimit(r) ==
    /\ r.pc = "acquire"
    /\ sem' = sem + 1
    /\ Step(r, [r EXCEPT !.pc = "dispatch"])
    /\ UNCHANGED <<probe, delivered, cfg, cookieFile, outbox, spawned, started, disk>>

Acquire(r) ==
    /\ r.pc = "acquire"
    /\ sem < concurrencyLimit
    /\ sem' = sem + 1
    /\ Step(r, [r EXCEPT !.pc = "dispatch"])
    /\ UNCHANGED <<probe, delivered, cfg, cookieFile, outbox, spawned, started, disk>>

\* Where the goroutine goes once the switch on message.Text is behind it
\* (lines 625-636): into handleVoiceMessage, or to the end of the function.
AfterSwitch(m) == IF m.voice THEN "v_createOga" ELSE "release"

\* The replies of lines 630-636, for a message nothing handled.
UnhandledReplies(m, handled) ==
    IF ~m.voice /\ ~handled /\ m.text # <<>>
    THEN << Sent("not understood", NoErr, "new", "unread"),
            Sent("main menu", NoErr, "new", "unread") >>
    ELSE <<>>

\* Lines 580-628: the command switch, the menu switch, the link test, the
\* voice test. A goroutine that enters a pipeline handler gets its run number.
Dispatch(r) ==
    /\ r.pc = "dispatch"
    /\ LET m == r.msg IN
       IF m.command # "" THEN
           /\ Step(r, [r EXCEPT !.pc = "release",
                  !.chat = Say(r, IF m.command \in {"start", "menu"} THEN "main menu"
                                  ELSE "unknown command", NoErr, "new", "unread")])
           /\ UNCHANGED started
       ELSE IF m.text \in MenuTexts THEN
           /\ Step(r, [r EXCEPT !.pc = AfterSwitch(m), !.isHandled = TRUE,
                  !.id = IF m.voice THEN started + 1 ELSE 0,
                  !.chat = Say(r, "menu reply", NoErr, "new", "unread")])
           /\ started' = IF m.voice THEN started + 1 ELSE started
       ELSE IF isValidYoutubeLink(m.text) THEN
           /\ Step(r, [r EXCEPT !.pc = "y_status", !.handler = "yt", !.id = started + 1])
           /\ started' = started + 1
       ELSE
           /\ Step(r, [r EXCEPT !.pc = AfterSwitch(m),
                  !.id = IF m.voice THEN started + 1 ELSE 0,
                  !.chat = @ \o UnhandledReplies(m, FALSE)])
           /\ started' = IF m.voice THEN started + 1 ELSE started
    /\ UNCHANGED <<probe, delivered, cfg, cookieFile, outbox, spawned, sem, disk>>

\* defer func() { <-semaphore }(): the goroutine ends
ReleaseKeepsSlot(r) ==
    /\ r.pc = "release"
    /\ Step(r, Ended(r))
    /\ UNCHANGED <<probe, delivered, cfg, cookieFile, outbox, spawned, started, sem, disk>>

ReleaseAfterPipelineOnly(r) ==
    /\ r.pc = "release"
    /\ sem' = IF r.id # 0 THEN sem - 1 ELSE sem
    /\ Step(r, Ended(r))
    /\ UNCHANGED <<probe, delivered, cfg, cookieFile, outbox, spawned, started, disk>>

Release(r) ==
    /\ r.pc = "release"
    /\ sem' = sem - 1
    /\ Step(r, Ended(r))
    /\ UNCHANGED <<probe, delivered, cfg, cookieFile, outbox, spawned, started, disk>>

\* Where a pipeline handler's return leads: handleYoutubeVideoInfoProcessing
\* returns to line 621, handleVoiceMessage to line 627.
AfterReturn(r) ==
    IF r.handler = "yt" THEN AfterSwitch(r.msg) ELSE "release"

\* A handler returns: its deferred functions run first, if it registered any.
ReturnPc(r, defers) == IF defers # <<>> THEN "defers" ELSE AfterReturn(r)

\* os.Remove(p) on the files d: the file is gone afterwards, and the call
\* returns a "not exist" error when there was none.
osRemove(d, p) ==
    [disk |-> [d EXCEPT ![p] = Absent],
     err |-> IF d[p] = Absent THEN "not exist" ELSE "nil"]

\* The body of a deferred function (lines 191-194, 213-216, 416-419): the
\* removal, and whether its error is logged; nothing is returned or raised.
deferredRemoveLogsNotExist(d, p) ==
    LET res == osRemove(d, p) IN
    [disk |-> res.disk, logged |-> res.err # "nil"]

deferredRemove(d, p) ==
    LET res == osRemove(d, p) IN
    [disk |-> res.disk, logged |-> res.err # "nil" /\ res.err # "not exist"]

\* One deferred os.Remove, last registered first (lines 190-195, 212-217, 415-420).
RunDeferred(r) ==
    /\ r.pc = "defers"
    /\ LET d == r.defers
           p == d[Len(d)]
           rest == SubSeq(d, 1, Len(d) - 1)
       IN  /\ disk' = deferredRemove(disk, p).disk
           /\ Step(r, [r EXCEPT !.defers = rest, !.removes = @ + 1,
                                !.pc = ReturnPc(r, rest)])
    /\ UNCHANGED <<probe, delivered, cfg, cookieFile, outbox, spawned, started, sem>>

\* ---------------------------------------------------- handleVoiceMessage
\* os.CreateTemp("", "voice-*.oga") and the first deferred os.Remove
\* (lines 182-195): a name no file has, or an error.
VoiceCreateOga(r) ==
    /\ r.pc = "v_createOga"
    /\ \/ \E n \in 1..NumNames :
            LET p == <<"oga", n>> IN
            /\ disk[p] = Absent
            /\ disk' = [disk EXCEPT ![p] = File(r.id, "empty")]
            /\ Step(r, [r EXCEPT !.pc = "v_download", !.handler = "voice",
                                 !.oga = p, !.defers = <<p>>, !.made = @ + 1])
       \/ /\ Step(r, [r EXCEPT !.pc = "release", !.handler = "voice",
                 !.result = "Failed",
                 !.chat = Say(r, "server error: no temp file for the audio",
                              NoErr, "new", "unread")])
          /\ UNCHANGED disk
    /\ UNCHANGED <<probe, delivered, cfg, cookieFile, outbox, spawned, started, sem>>

\* downloadFile (lines 134-173, called at 197): fails before os.Create, fails
\* in io.Copy after os.Create, or writes the whole attachment.
VoiceDownloadIgnoresError(r) ==
    /\ r.pc = "v_download"
    /\ \E o \in {"ok", "transport", "copy"} :
        /\ disk' = IF o = "transport" THEN disk
                   ELSE [disk EXCEPT ![r.oga] = File(r.id, "data")]
        /\ Step(r, [r EXCEPT !.pc = "v_createWav",
               !.calls = Append(@, Call("downloadFile", o = "ok"))])
    /\ UNCHANGED <<probe, delivered, cfg, cookieFile, outbox, spawned, started, sem>>

VoiceDownload(r) ==
    /\ r.pc = "v_download"
    /\ \E o \in {"ok", "transport", "copy"} :
        /\ disk' = IF o = "transport" THEN disk
                   ELSE [disk EXCEPT ![r.oga] = File(r.id, "data")]
        /\ IF o = "ok"
           THEN Step(r, [r EXCEPT !.pc = "v_createWav",
                    !.calls = Append(@, Call("downloadFile", TRUE))])
           ELSE Step(r, [r EXCEPT !.pc = ReturnPc(r, r.defers),
                    !.calls = Append(@, Call("downloadFile", FALSE)),
                    !.result = "Failed",
                    !.chat = Say(r, "could not download the voice message",
                                 NoErr, "new", "unread")])
    /\ UNCHANGED <<probe, delivered, cfg, cookieFile, outbox, spawned, started, sem>>

\* os.CreateTemp("", "voice-*.wav") and the second deferred os.Remove (lines 204-217)
VoiceCreateWav(r) ==
    /\ r.pc = "v_createWav"
    /\ \/ \E n \in 1..NumNames :
            LET p == <<"wav", n>> IN
            /\ disk[p] = Absent
            /\ disk' = [disk EXCEPT ![p] = File(r.id, "empty")]
            /\ Step(r, [r EXCEPT !.pc = "v_convert", !.wav = p,
                                 !.defers = Append(@, p), !.made = @ + 1])
       \/ /\ Step(r, [r EXCEPT !.pc = ReturnPc(r, r.defers),
                 !.result = "Failed",
                 !.chat = Say(r, "server error: no temp file for the conversion",
                              NoErr, "new", "unread")])
          /\ UNCHANGED disk
    /\ UNCHANGED <<probe, delivered, cfg, cookieFile, outbox, spawned, started, sem>>

\* convertOgaToWav (lines 123-132, called at 219): ffmpeg -y writes the wav
\* file, or exits non-zero with or without having written to it.
VoiceConvert(r) ==
    /\ r.pc = "v_convert"
    /\ \E o \in {"ok", "failed", "failed, partial output"} :
        /\ disk' = IF o = "failed" THEN disk
                   ELSE [disk EXCEPT ![r.wav] = File(r.id, "data")]
        /\ IF o = "ok"
           THEN Step(r, [r EXCEPT !.pc = "v_recognize",
                    !.calls = Append(@, Call("convertOgaToWav", TRUE))])
           ELSE Step(r, [r EXCEPT !.pc = ReturnPc(r, r.defers),
                    !.calls = Append(@, Call("convertOgaToWav", FALSE)),
                    !.result = "Failed",
                    !.chat = Say(r, "audio conversion error", NoErr, "new", "unread")])
    /\ UNCHANGED <<probe, delivered, cfg, cookieFile, outbox, spawned, started, sem>>

\* What handleVoiceMessage tells the user after recognizeSpeech (lines 227-236)
VoiceReply(ret) ==
    IF ret.err # NoErr THEN Sent("could not recognize the speech", NoErr, "new", "unread")
    ELSE IF ret.text = "" THEN Sent("no text extracted (empty result)", NoErr, "new", "unread")
    ELSE Sent("transcript", NoErr, "new", "unread")

\* recognizeSpeech on the wav file and the reply (lines 226-240)
VoiceRecognize(r) ==
    /\ r.pc = "v_recognize"
    /\ \E resp \in TranscriptionResponses :
        LET ret == recognizeSpeech(disk[r.wav] # Absent, resp) IN
        Step(r, [r EXCEPT !.pc = ReturnPc(r, r.defers),
            !.recognizedText = IF ret.err = NoErr THEN ret.text ELSE @,
            !.calls = Append(@, Call("recognizeSpeech", ret.err = NoErr)),
            !.result = IF ret.err # NoErr THEN "Failed" ELSE "Completed",
            !.chat = Append(@, VoiceReply(ret))])
    /\ UNCHANGED <<probe, delivered, cfg, cookieFile, outbox, spawned, started, sem, disk>>

\* ------------------------------------------------------ sendOrEditMessage
\* Lines 457-493: an edit of the status message when there is one, and a new
\* message when the edit fails; a new message otherwise. editOk is what
\* bot.Send returns for the edit, the one result the function branches on.
sendOrEditMessageAlsoSendsNew(messageIDToEdit, t, e, editOk) ==
    IF messageIDToEdit # 0
    THEN << Sent(t, e, "edit", IF editOk THEN "ok" ELSE "error"),
            Sent(t, e, "new", "unread") >>
    ELSE << Sent(t, e, "new", "unread") >>

sendOrEditMessage(messageIDToEdit, t, e, editOk) ==
    IF messageIDToEdit # 0
    THEN IF editOk THEN << Sent(t, e, "edit", "ok") >>
         ELSE << Sent(t, e, "edit", "error"), Sent(t, e, "new", "unread") >>
    ELSE << Sent(t, e, "new", "unread") >>

\* The results bot.Send can return for the edit: none to choose when there
\* is no status message to edit.
EditResults(r) == IF r.messageIDToEdit # 0 THEN BOOLEAN ELSE {TRUE}

\* ------------------------------------ handleYoutubeVideoInfoProcessing
\* bot.Send(processingMsg), lines 397-405
YtStatusAbortsOnError(r) ==
    /\ r.pc = "y_status"
    /\ \E ok \in BOOLEAN :
        Step(r, [r EXCEPT !.pc = IF ok THEN "y_createTemp" ELSE AfterReturn(r),
            !.messageIDToEdit = IF ok THEN 1 ELSE 0,
            !.result = IF ok THEN @ ELSE "Failed",
            !.chat = Say(r, "processing started", NoErr, "new",
                         IF ok THEN "ok" ELSE "error")])
    /\ UNCHANGED <<probe, delivered, cfg, cookieFile, outbox, spawned, started, sem, disk>>

YtStatus(r) ==
    /\ r.pc = "y_status"
    /\ \E ok \in BOOLEAN :
        Step(r, [r EXCEPT !.pc = "y_createTemp",
            !.messageIDToEdit = IF ok THEN 1 ELSE 0,
            !.chat = Say(r, "processing started", NoErr, "new",
                         IF ok THEN "ok" ELSE "error")])
    /\ UNCHANGED <<probe, delivered, cfg, cookieFile, outbox, spawned, started, sem, disk>>

\* downloadAudioFromYoutube returned an error (lines 409-414): the reply, and
\* the return before any defer is registered.
YtAcquireFailed(r, e, o) ==
    [r EXCEPT !.pc = AfterReturn(r),
        !.calls = Append(@, Call("downloadAudioFromYoutube", FALSE)),
        !.result = "Failed", !.acquireErr = e.kind,
        !.chat = @ \o sendOrEditMessage(r.messageIDToEdit,
                          "could not download the audio", e, o)]

\* os.CreateTemp("./upload", "youtube_audio_*.mp3"), lines 246-253
YtCreateTemp(r) ==
    /\ r.pc = "y_createTemp"
    /\ \/ \E n \in 1..NumNames :
            LET p == <<"mp3", n>> IN
            /\ disk[p] = Absent
            /\ disk' = [disk EXCEPT ![p] = File(r.id, "empty")]
            /\ Step(r, [r EXCEPT !.pc = "y_remove", !.mp3 = p, !.made = @ + 1])
       \/ \E o \in EditResults(r) :
            /\ Step(r, YtAcquireFailed(r, Err("failed to create temp file", "none"), o))
            /\ UNCHANGED disk
    /\ UNCHANGED <<probe, delivered, cfg, cookieFile, outbox, spawned, started, sem>>

\* os.Remove(mp3FilePath), line 254: yt-dlp is to create the file itself
YtRemovePlaceholder(r) ==
    /\ r.pc = "y_remove"
    /\ disk' = [disk EXCEPT ![r.mp3] = Absent]
    /\ Step(r, [r EXCEPT !.pc = "y_run", !.removes = @ + 1])
    /\ UNCHANGED <<probe, delivered, cfg, cookieFile, outbox, spawned, started, sem>>

\* The results os.Stat(cfg.YoutubeCookiesPath) can have (line 270): nil only
\* when a file is there, an error when none is or when the file cannot be
\* examined. No call is made for an empty path.
CookieStatResults ==
    IF cfg.YoutubeCookiesPath # "" /\ cookieFile THEN BOOLEAN ELSE {FALSE}

\* Lines 267-278: "--cookies" is appended when the path is set and os.Stat
\* returned nil; a warning is logged otherwise and the arguments stay as
\* they are.
ytDlpCookiesAlways(path, present, statOk) ==
    IF path = "" THEN CookieCheck("not configured", FALSE, FALSE)
    ELSE CookieCheck(IF statOk THEN "found" ELSE "not found", present, TRUE)

ytDlpCookies(path, present, statOk) ==
    IF path = "" THEN CookieCheck("not configured", FALSE, FALSE)
    ELSE IF statOk THEN CookieCheck("found", present, TRUE)
    ELSE CookieCheck("not found", present, FALSE)

\* The arguments (lines 258-282) and exec.Command("yt-dlp", args...).Run(),
\* line 288: the exit status and what the subprocess left at the output path.
YtRunRetriesOnFailure(r) ==
    /\ r.pc = "y_run"
    /\ \E statOk \in CookieStatResults, exit0 \in BOOLEAN,
          wrote \in {"nothing", "empty", "data"} :
        /\ disk' = IF wrote = "nothing" THEN disk
                   ELSE [disk EXCEPT ![r.mp3] = File(r.id, wrote)]
        /\ Step(r, [r EXCEPT !.pc = IF exit0 THEN "y_check" ELSE "y_run",
               !.runOk = exit0,
               !.tool = Append(@, r.msg.text),
               !.cookies = ytDlpCookies(cfg.YoutubeCookiesPath, cookieFile, statOk),
               !.made = IF wrote = "nothing" THEN @ ELSE @ + 1])
    /\ UNCHANGED <<probe, delivered, cfg, cookieFile, outbox, spawned, started, sem>>

YtRun(r) ==
    /\ r.pc = "y_run"
    /\ \E statOk \in CookieStatResults, exit0 \in BOOLEAN,
          wrote \in {"nothing", "empty", "data"} :
        /\ disk' = IF wrote = "nothing" THEN disk
                   ELSE [disk EXCEPT ![r.mp3] = File(r.id, wrote)]
        /\ Step(r, [r EXCEPT !.pc = "y_check", !.runOk = exit0,
               !.tool = Append(@, r.msg.text),
               !.cookies = ytDlpCookies(cfg.YoutubeCookiesPath, cookieFile, statOk),
               !.made = IF wrote = "nothing" THEN @ ELSE @ + 1])
    /\ UNCHANGED <<probe, delivered, cfg, cookieFile, outbox, spawned, started, sem>>

\* Lines 289-313 and 409-422: what downloadAudioFromYoutube does with the
\* subprocess's outcome, and the caller's reply, defer and progress message.
\* fault: os.Stat fails with an error other than "not exist".
YtCheck(r) ==
    /\ r.pc = "y_check"
    /\ \E fault \in BOOLEAN, o \in EditResults(r) :
        LET p == r.mp3
            present == disk[p] # Absent
            removed == [r EXCEPT !.removes = @ + 1]
        IN
        IF ~r.runOk THEN
            IF present /\ ~fault
            THEN /\ disk' = [disk EXCEPT ![p] = Absent]
                 /\ Step(r, YtAcquireFailed(removed, Err("yt-dlp failed", "none"), o))
            ELSE /\ UNCHANGED disk
                 /\ Step(r, YtAcquireFailed(r, Err("yt-dlp failed", "none"), o))
        ELSE IF ~present /\ ~fault THEN
            /\ UNCHANGED disk
            /\ Step(r, YtAcquireFailed(r, Err("yt-dlp output file not found", "none"), o))
        ELSE IF fault THEN
            /\ UNCHANGED disk
            /\ Step(r, YtAcquireFailed(r, Err("error stating yt-dlp output file", "none"), o))
        ELSE IF disk[p].size = "empty" THEN
            /\ disk' = [disk EXCEPT ![p] = Absent]
            /\ Step(r, YtAcquireFailed(removed, Err("yt-dlp created an empty file", "none"), o))
        ELSE
            /\ UNCHANGED disk
            /\ Step(r, [r EXCEPT !.pc = "y_recognize", !.defers = <<p>>,
                   !.calls = Append(@, Call("downloadAudioFromYoutube", TRUE)),
                   !.chat = @ \o sendOrEditMessage(r.messageIDToEdit,
                                     "audio extracted", NoErr, o)])
    /\ UNCHANGED <<probe, delivered, cfg, cookieFile, outbox, spawned, started, sem>>

\* Where handleYoutubeVideoInfoProcessing goes after recognizeSpeech
\* (lines 426-440): the error return, the empty-text return, or on.
YtAfterRecognizeNoReturn(ret) == "y_summarize"

YtAfterRecognizeSummarizeEmpty(ret) ==
    IF ret.err # NoErr THEN "defers" ELSE "y_summarize"

YtAfterRecognize(ret) ==
    IF ret.err # NoErr \/ ret.text = "" THEN "defers" ELSE "y_summarize"

\* What handleYoutubeVideoInfoProcessing tells the user after recognizeSpeech
\* (lines 426-440)
YtReply(messageIDToEdit, ret, editOk) ==
    sendOrEditMessage(messageIDToEdit,
        IF ret.err # NoErr THEN "could not recognize the speech"
        ELSE IF YtAfterRecognize(ret) = "defers" THEN "no text extracted (empty result)"
        ELSE "text received", ret.err, editOk)

\* recognizeSpeech on the mp3 file and what follows it (lines 425-440)
YtRecognize(r) ==
    /\ r.pc = "y_recognize"
    /\ \E resp \in TranscriptionResponses, o \in EditResults(r) :
        LET ret == recognizeSpeech(disk[r.mp3] # Absent, resp)
            next == YtAfterRecognize(ret)
        IN
        Step(r, [r EXCEPT !.pc = next,
            !.recognizedText = IF ret.err = NoErr THEN ret.text ELSE @,
            !.calls = Append(@, Call("recognizeSpeech", ret.err = NoErr)),
            !.result = IF next = "defers" THEN "Failed" ELSE @,
            !.chat = @ \o YtReply(r.messageIDToEdit, ret, o)])
    /\ UNCHANGED <<probe, delivered, cfg, cookieFile, outbox, spawned, started, sem, disk>>

\* getChatCompletionFromBothub and the final reply (lines 443-453)
YtSummarize(r) ==
    /\ r.pc = "y_summarize"
    /\ \E resp \in CompletionResponses, o \in EditResults(r) :
        LET ret == getChatCompletionFromBothub(resp) IN
        Step(r, [r EXCEPT !.pc = "defers",
            !.calls = Append(@, Call("getChatCompletionFromBothub", ret.err = NoErr)),
            !.result = IF ret.err # NoErr THEN "Failed" ELSE "Completed",
            !.chat = @ \o sendOrEditMessage(r.messageIDToEdit,
                IF ret.err # NoErr THEN "could not get the video information"
                ELSE "video information", ret.err, o)])
    /\ UNCHANGED <<probe, delivered, cfg, cookieFile, outbox, spawned, started, sem, disk>>

\* ------------------------------------------------------- specifications
Next ==
    \/ \E m \in Messages : Spawn(m, MaxUpdates)
    \/ \E r \in Live : Acquire(r)
    \/ \E r \in Live : Dispatch(r)
    \/ \E r \in Live : VoiceCreateOga(r)
    \/ \E r \in Live : VoiceDownload(r)
    \/ \E r \in Live : VoiceCreateWav(r)
    \/ \E r \in Live : VoiceConvert(r)
    \/ \E r \in Live : VoiceRecognize(r)
    \/ \E r \in Live : YtStatus(r)
    \/ \E r \in Live : YtCreateTemp(r)
    \/ \E r \in Live : YtRemovePlaceholder(r)
    \/ \E r \in Live : YtRun(r)
    \/ \E r \in Live : YtCheck(r)
    \/ \E r \in Live : YtRecognize(r)
    \/ \E r \in Live : YtSummarize(r)
    \/ \E r \in Live : RunDeferred(r)
    \/ \E r \in Live : Release(r)

Spec == Init /\ [][Next]_vars

\* A flood: a voice message and then commands, more goroutines than tokens.
FloodMessage == IF spawned = 0 THEN Msg("", <<>>, TRUE) ELSE Msg("start", <<"/", "w">>, FALSE)

NextFlood ==
    \/ Spawn(FloodMessage, FloodUpdates)
    \/ \E r \in Live : Acquire(r)
    \/ \E r \in Live : Dispatch(r)
    \/ \E r \in Live : VoiceCreateOga(r)
    \/ \E r \in Live : VoiceDownload(r)
    \/ \E r \in Live : VoiceCreateWav(r)
    \/ \E r \in Live : VoiceConvert(r)
    \/ \E r \in Live : VoiceRecognize(r)
    \/ \E r \in Live : RunDeferred(r)
    \/ \E r \in Live : Release(r)

SpecFlood == Init /\ [][NextFlood]_vars

\* recognizeSpeech on its own, with what each handler tells the user about
\* its result (lines 43-121, 226-236, 425-440).
HttpStatuses == {200, 400, 401, 429, 500, 503}

AllTranscriptionResponses ==
    { Resp(FALSE, 0, FALSE, "", "none") }
    \cup { Resp(TRUE, st, FALSE, "", "none") : st \in HttpStatuses }
    \cup { Resp(TRUE, st, TRUE, tx, er) :
             st \in HttpStatuses, tx \in {"", "t"}, er \in {"none", "quota", "bad file"} }

InitSTT ==
    /\ runs = EmptyBag
    /\ spawned = 0
    /\ started = 0
    /\ sem = 0
    /\ disk = [p \in Paths |-> Absent]
    /\ probe \in { Probe(o, resp) : o \in BOOLEAN, resp \in AllTranscriptionResponses }
    /\ delivered = NoDelivery
    /\ cfg = NoCookiesConfig
    /\ cookieFile = FALSE
    /\ outbox = NoOutbox

RecognizeAndReply ==
    /\ ~probe.returned
    /\ LET ret == recognizeSpeech(probe.opened, probe.resp) IN
       probe' = [probe EXCEPT !.returned = TRUE, !.ret = ret,
                              !.voice = << VoiceReply(ret) >>,
                              !.video = YtReply(1, ret, TRUE)]
    /\ UNCHANGED <<runs, spawned, started, sem, disk, delivered, cfg, cookieFile, outbox>>

NextSTT == RecognizeAndReply

SpecSTT == InitSTT /\ [][NextSTT]_vars

\* ------------------------------------------------------------ properties
\* The files on disk made for run id
Owned(id) == { p \in Paths : disk[p] # Absent /\ disk[p].owner = id }

\* The component calls of a goroutine, by name
Ops(r) == [k \in 1..Len(r.calls) |-> r.calls[k].op]

AllOk(r) == \A k \in 1..Len(r.calls) : r.calls[k].ok

Texts(r) == { r.chat[k].text : k \in 1..Len(r.chat) }

IsPrefix(s, t) == Len(s) <= Len(t) /\ s = SubSeq(t, 1, Len(s))

IsVideoRun(r) == r.id # 0 /\ ~r.msg.voice

\* The goroutines holding a token: past the send on the channel, not yet ended
Holding ==
    LET S == { r \in Live : r.pc \notin {"acquire", "done"} } IN
    BagCardinality([r \in S |-> runs[r]])

\* C1: however many messages arrive together, the number of goroutines past
\* the gate (in a pipeline stage or in any other part of the handler) is never
\* more than concurrencyLimit.
C1_GateCeiling == Holding <= concurrencyLimit

\* The gate is full, a voice run is in its transcription stage and another
\* goroutine waits at the gate.
C1_GateFull ==
    /\ Holding = concurrencyLimit
    /\ \E r \in Live : r.pc = "v_recognize"
    /\ \E r \in Live : r.pc = "acquire"

\* C2: once a run's handler has returned, whatever the outcome of its stages,
\* no temporary file made for the run (.oga, .wav, .mp3) is on disk.
C2_NoFileAfterTerminal ==
    \A r \in Live : r.id # 0 /\ r.pc \in {"release", "done"} => Owned(r.id) = {}

\* C3: every run that has ended reached one terminal state, Completed or
\* Failed, and every file made for it was removed, once.
C3_OneTerminalOneRelease ==
    \A r \in Live : r.id # 0 /\ r.pc = "done" =>
        /\ r.result \in {"Completed", "Failed"}
        /\ r.removes = r.made
        /\ Owned(r.id) = {}

\* C4: no run has given its token back to the gate while a file made for it
\* is still on disk.
C4_FilesGoneBeforeSlotFreed ==
    \A r \in Live : r.pc = "done" => r.id = 0 \/ Owned(r.id) = {}

\* The recognized grammar, written out: an optional scheme, an optional
\* "www.", one of the three host-and-path forms, a word character or dash,
\* and no space up to the end.
Prefixes ==
    { <<>>, <<"http://">>, <<"https://">>, <<"www.">>,
      <<"http://", "www.">>, <<"https://", "www.">> }

RecognizedForm(url) ==
    \E k \in 1..Len(url) :
        /\ SubSeq(url, 1, k - 1) \in Prefixes
        /\ url[k] \in {"youtube.com/watch?v=", "youtu.be/", "youtube.com/shorts/"}
        /\ k < Len(url)
        /\ url[k + 1] \in {"w", "-"}
        /\ \A j \in (k + 1)..Len(url) : url[j] # " "

\* C5: yt-dlp is only ever started with the text of the goroutine's own
\* message, and that text is in the recognized grammar; a text outside the
\* grammar starts no pipeline run, no component call and no subprocess, and
\* is answered as not understood.
C5_ExtractionOnlyAfterValidation ==
    \A r \in Live :
        /\ \A k \in 1..Len(r.tool) : r.tool[k] = r.msg.text /\ RecognizedForm(r.tool[k])
        /\ ~r.msg.voice /\ ~RecognizedForm(r.msg.text) =>
              r.id = 0 /\ r.tool = <<>> /\ r.calls = <<>>
        /\ r.pc = "done" /\ r.msg.text \in InvalidUrls => "not understood" \in Texts(r)

\* yt-dlp has run for one message, and a message with a link outside the
\* grammar has been answered.
C5_ToolRunAndLinkRejected ==
    /\ \E r \in Live : r.tool # <<>>
    /\ \E r \in Live : r.pc = "done" /\ r.msg.text \in InvalidUrls

\* The component calls of each handler, in the order of its text
VoiceStages == <<"downloadFile", "convertOgaToWav", "recognizeSpeech">>

VideoStages == <<"downloadAudioFromYoutube", "recognizeSpeech", "getChatCompletionFromBothub">>

StagesOf(r) == IF r.msg.voice THEN VoiceStages ELSE VideoStages

\* The stage a component call belongs to
StageOf(op) ==
    CASE op \in {"downloadFile", "downloadAudioFromYoutube"} -> "Acquiring"
      [] op = "convertOgaToWav" -> "Normalizing"
      [] op = "recognizeSpeech" -> "Transcribing"
      [] op = "getChatCompletionFromBothub" -> "Summarizing"

\* C6: a voice run calls downloadFile, convertOgaToWav, recognizeSpeech in
\* that order, a video run downloadAudioFromYoutube, recognizeSpeech,
\* getChatCompletionFromBothub in that order (it has no conversion stage);
\* no call is made before the one before it succeeded, a run that completes
\* made all of its handler's calls, and a voice run never calls the
\* summarizer.
C6_StageOrder ==
    \A r \in Live :
        /\ IsPrefix(Ops(r), StagesOf(r))
        /\ \A k \in 1..(Len(r.calls) - 1) : r.calls[k].ok
        /\ r.result = "Completed" => Ops(r) = StagesOf(r) /\ AllOk(r)
        /\ r.msg.voice => \A k \in 1..Len(r.calls) : StageOf(r.calls[k].op) # "Summarizing"
        /\ IsVideoRun(r) => \A k \in 1..Len(r.calls) : StageOf(r.calls[k].op) # "Normalizing"

\* A voice run and a video run have both completed.
C6_BothFlowsCompleted ==
    /\ \E r \in Live : r.msg.voice /\ r.result = "Completed" /\ r.pc = "done"
    /\ \E r \in Live : IsVideoRun(r) /\ r.result = "Completed" /\ r.pc = "done"

\* C6 as stated: every completed run went through Acquiring, Normalizing,
\* Transcribing and, in the video flow, Summarizing.
C6_NormalizingInBothFlows ==
    \A r \in Live : r.result = "Completed" =>
        [k \in 1..Len(r.calls) |-> StageOf(r.calls[k].op)] =
            IF r.msg.voice THEN <<"Acquiring", "Normalizing", "Transcribing">>
            ELSE <<"Acquiring", "Normalizing", "Transcribing", "Summarizing">>

\* C7: a component call that failed is the run's last call, the run is
\* Failed, and it hands the user neither a transcript nor a summary.
C7_ErrorEndsRun ==
    \A r \in Live : \A k \in 1..Len(r.calls) :
        ~r.calls[k].ok =>
            /\ k = Len(r.calls)
            /\ r.result = "Failed"
            /\ Texts(r) \cap {"transcript", "video information"} = {}

\* A video run has ended whose summarizer failed, and a voice run has ended
\* whose conversion failed.
C7_LateAndEarlyFailure ==
    /\ \E r \in Live : /\ r.pc = "done" /\ Len(r.calls) = 3
                       /\ r.calls[3] = Call("getChatCompletionFromBothub", FALSE)
    /\ \E r \in Live : /\ r.pc = "done" /\ Len(r.calls) = 2
                       /\ r.calls[2] = Call("convertOgaToWav", FALSE)

\* recognizeSpeech returned the empty text and no error to the run
EmptyTranscript(r) == r.recognizedText = ""

\* C8: an empty transcript with no error is no component error, and the two
\* handlers treat it differently. The voice handler goes on to its final
\* reply, which carries a notice instead of the text, and ends Completed. The
\* video handler answers with the notice and returns at once: the summarizer
\* is not called and no summary is delivered. A run ends Failed only after a
\* failed component call, a temporary file that could not be created, or, in
\* the video flow, an empty transcript.
C8_EmptyTranscript ==
    \A r \in Live :
        /\ EmptyTranscript(r) =>
            /\ AllOk(r)
            /\ "no text extracted (empty result)" \in Texts(r)
            /\ Texts(r) \cap {"transcript", "video information"} = {}
            /\ r.msg.voice => Ops(r) = VoiceStages /\ r.result = "Completed"
            /\ IsVideoRun(r) =>
                  /\ Ops(r) = <<"downloadAudioFromYoutube", "recognizeSpeech">>
                  /\ r.result = "Failed"
                  /\ r.pc \in {"defers", "release", "done"}
        /\ r.result = "Failed" =>
            \/ ~AllOk(r)
            \/ Texts(r) \cap {"server error: no temp file for the audio",
                              "server error: no temp file for the conversion"} # {}
            \/ IsVideoRun(r) /\ EmptyTranscript(r)

\* A voice run and a video run have both ended after an empty transcript.
C8_EmptyInBothFlows ==
    /\ \E r \in Live : r.msg.voice /\ EmptyTranscript(r) /\ r.pc = "done"
    /\ \E r \in Live : IsVideoRun(r) /\ EmptyTranscript(r) /\ r.pc = "done"

\* C8 as stated: a run that ended after an empty transcript is Completed, and
\* in the video flow it called the summarizer.
C8_EmptyProceedsToSummary ==
    \A r \in Live : EmptyTranscript(r) /\ r.pc = "done" =>
        /\ r.result = "Completed"
        /\ IsVideoRun(r) => \E k \in 1..Len(r.calls) : r.calls[k].op = "getChatCompletionFromBothub"

\* The endpoint answered the opened file's upload
Answered == probe.returned /\ probe.opened /\ probe.resp.transport

\* C9: for an answer with status 200, a body that parses, an empty text and
\* no error field, recognizeSpeech returns the empty text and a nil error.
C9_EmptyTextIsSuccess ==
    Answered /\ probe.resp.status = 200 /\ probe.resp.parse
             /\ probe.resp.text = "" /\ probe.resp.error = "none"
        => probe.ret = Ret("", NoErr)

\* recognizeSpeech has returned for such an answer.
C9_EmptyTextReturned ==
    /\ Answered
    /\ probe.resp = Resp(TRUE, 200, TRUE, "", "none")

\* C10: for an answer with a status other than 200, the error recognizeSpeech
\* returns embeds the provider's message when the body parses with an error
\* payload, and is the generic status-and-body error otherwise. The video
\* handler's reply carries the returned error, and with it the provider's
\* message; the voice handler's reply is a fixed text that carries neither.
C10_ProviderMessage ==
    Answered /\ probe.resp.status # 200 =>
        /\ probe.video # <<>>
        /\ \A k \in 1..Len(probe.video) : probe.video[k].provider = probe.ret.err.provider
        /\ probe.voice = << Sent("could not recognize the speech", NoErr, "new", "unread") >>
        /\ IF probe.resp.parse /\ probe.resp.error # "none"
           THEN probe.ret = Ret("", Err("Bothub API error", probe.resp.error))
           ELSE probe.ret = Ret("", Err("request failed with status and body", "none"))

\* recognizeSpeech has returned for a 500 answer with an error payload.
C10_ErrorPayloadReturned ==
    /\ Answered
    /\ probe.resp.status = 500
    /\ probe.resp.parse
    /\ probe.resp.error = "quota"

\* C10 as stated: whatever is told to the user about such an answer carries
\* the provider's message.
C10_ProviderMessageInEveryReply ==
    Answered /\ probe.resp.status # 200 /\ probe.resp.parse /\ probe.resp.error # "none" =>
        /\ probe.ret.err.provider = probe.resp.error
        /\ \A k \in 1..Len(probe.video) : probe.video[k].provider = probe.resp.error
        /\ \A k \in 1..Len(probe.voice) : probe.voice[k].provider = probe.resp.error

\* C11: when yt-dlp has exited with status zero and a zero-length file is at
\* the output path, downloadAudioFromYoutube returns the empty-file error and
\* the file is gone when it returns.
C11_ZeroLengthRemoved ==
    [][\A r \in Live :
          r.pc = "y_check" /\ r.runOk /\ disk[r.mp3].size = "empty" /\ r \notin DOMAIN runs'
          => \E q \in DOMAIN runs' :
                /\ q.id = r.id
                /\ q.acquireErr = "yt-dlp created an empty file"
                /\ disk'[r.mp3] = Absent]_vars

C13_NoRetry ==
    \A r \in Live :
        /\ \A j, k \in 1..Len(r.calls) : r.calls[j].op = r.calls[k].op => j = k
        /\ Len(r.tool) <= 1
        /\ \A k \in 1..Len(r.calls) :
              ~r.calls[k].ok => k = Len(r.calls) /\ r.result = "Failed"

\* A run has ended after yt-dlp failed, having started it once.
C13_FailedOnce ==
    \E r \in Live : r.pc = "done" /\ r.acquireErr = "yt-dlp failed" /\ Len(r.tool) = 1

\* ------------------------------------------------- one run, delivered
\* The messages c of a run with what bot.Send returned for each: oks gives
\* the results the code does not read.
Deliver(c, oks) ==
    [k \in 1..Len(c) |->
        IF c[k].out = "unread"
        THEN [c[k] EXCEPT !.out = IF oks[k] THEN "ok" ELSE "error"]
        ELSE c[k]]

\* The transport's results for the messages of an ended pipeline run
DeliverReplies(r) ==
    /\ delivered = NoDelivery
    /\ r.pc = "done"
    /\ r.id # 0
    /\ \E oks \in [1..Len(r.chat) -> BOOLEAN] :
        delivered' = [id |-> r.id, voice |-> r.msg.voice, result |-> r.result,
                      chat |-> Deliver(r.chat, oks)]
    /\ UNCHANGED <<runs, spawned, started, sem, disk, probe, cfg, cookieFile, outbox>>

\* One message from start to end, and what became of its replies
NextDelivery ==
    \/ \E m \in Messages : Spawn(m, 1)
    \/ \E r \in Live : Acquire(r)
    \/ \E r \in Live : Dispatch(r)
    \/ \E r \in Live : VoiceCreateOga(r)
    \/ \E r \in Live : VoiceDownload(r)
    \/ \E r \in Live : VoiceCreateWav(r)
    \/ \E r \in Live : VoiceConvert(r)
    \/ \E r \in Live : VoiceRecognize(r)
    \/ \E r \in Live : YtStatus(r)
    \/ \E r \in Live : YtCreateTemp(r)
    \/ \E r \in Live : YtRemovePlaceholder(r)
    \/ \E r \in Live : YtRun(r)
    \/ \E r \in Live : YtCheck(r)
    \/ \E r \in Live : YtRecognize(r)
    \/ \E r \in Live : YtSummarize(r)
    \/ \E r \in Live : RunDeferred(r)
    \/ \E r \in Live : Release(r)
    \/ \E r \in Live : DeliverReplies(r)

SpecDelivery == Init /\ [][NextDelivery]_vars

\* The replies by which the handlers report that a run did not complete
FailureTexts ==
    { "server error: no temp file for the audio",
      "could not download the voice message",
      "server error: no temp file for the conversion",
      "audio conversion error",
      "could not recognize the speech",
      "could not download the audio",
      "no text extracted (empty result)",
      "could not get the video information" }

\* The positions of the failure replies among the delivered messages
ErrorReplies == { k \in 1..Len(delivered.chat) : delivered.chat[k].text \in FailureTexts }

\* C14: a run that ends Failed hands one failure reply to the chat transport,
\* as its last message: by one send, or, when there is a status message to
\* edit, by one edit followed by one new message with the same text if and
\* only if the edit failed. The user therefore never sees it twice; the user
\* sees it not at all when the last of these sends fails.
C14_OneFailureReply ==
    delivered.result = "Failed" =>
        LET c == delivered.chat
            n == Len(c)
        IN  /\ ErrorReplies \in { {n}, {n - 1, n} }
            /\ Cardinality({ k \in ErrorReplies : c[k].out = "ok" }) <= 1
            /\ ErrorReplies = {n - 1, n} =>
                  /\ c[n - 1].via = "edit" /\ c[n - 1].out = "error"
                  /\ c[n].via = "new"
                  /\ c[n].text = c[n - 1].text /\ c[n].provider = c[n - 1].provider
            /\ c[n].via = "edit" => c[n].out = "ok"
            /\ (\E k \in ErrorReplies : c[k].out = "ok") <=> c[n].out = "ok"

\* A failed run's edit failed and the new message that followed was delivered.
C14_EditFailedThenDelivered ==
    /\ delivered.result = "Failed"
    /\ Len(delivered.chat) >= 2
    /\ delivered.chat[Len(delivered.chat) - 1].via = "edit"
    /\ delivered.chat[Len(delivered.chat) - 1].out = "error"
    /\ delivered.chat[Len(delivered.chat)].out = "ok"

\* C14 as stated: the user receives the failure reply of a failed run exactly
\* once.
C14_DeliveredExactlyOnce ==
    delivered.result = "Failed" =>
        Cardinality({ k \in ErrorReplies : delivered.chat[k].out = "ok" }) = 1

\* C15: in the video flow the "audio extracted" notification is issued once
\* downloadAudioFromYoutube has succeeded and the "text received" notification
\* once recognizeSpeech has returned a non-empty text (after an empty text the
\* run ends with a notice instead). Whatever becomes of the status message
\* and the notifications, the handler makes at least its first call, and how
\* it ends follows from the component calls alone: Completed exactly when all
\* three calls were made and succeeded, Failed exactly when a call failed or
\* the transcript was empty.
C15_ProgressBestEffort ==
    \A r \in Live : IsVideoRun(r) =>
        /\ r.calls # <<>> /\ r.calls[1].ok => "audio extracted" \in Texts(r)
        /\ r.recognizedText \notin {"none", ""} => "text received" \in Texts(r)
        /\ r.recognizedText = "" => "text received" \notin Texts(r)
        /\ r.pc \in {"release", "done"} =>
              /\ r.calls # <<>>
              /\ r.chat[1].text = "processing started"
              /\ r.result = "Completed" <=> Ops(r) = VideoStages /\ AllOk(r)
              /\ r.result = "Failed" <=> ~AllOk(r) \/ EmptyTranscript(r)

\* A video run has completed though none of its messages, the status message
\* and the notifications included, was delivered.
C15_CompletedUndelivered ==
    /\ delivered.id # 0
    /\ ~delivered.voice
    /\ delivered.result = "Completed"
    /\ \A k \in 1..Len(delivered.chat) : delivered.chat[k].out = "error"

\* C15 as stated: a notification follows every transcription that succeeded.
C15_NotifiedAfterEveryTranscription ==
    \A r \in Live :
        IsVideoRun(r) /\ Len(r.calls) >= 2 /\ r.calls[2].ok => "text received" \in Texts(r)

\* C16: every step of a run that fails, from the failing call through its
\* cleanup to the return of its token, leaves every other goroutine as it was,
\* leaves every file made for another run as it was, takes no token and gives
\* back one token, its own, when it ends, after which the gate has room.
C16_FailureIsLocal ==
    [][\A r \in Live : \A q \in DOMAIN runs' :
          r.id # 0 /\ q.id = r.id /\ q # r /\ q.result = "Failed"
          => /\ \A o \in Live \ {r} : o \in DOMAIN runs' /\ runs'[o] = runs[o]
             /\ \A p \in Paths :
                   disk[p] # Absent /\ disk[p].owner # r.id => disk'[p] = disk[p]
             /\ sem' = IF q.pc = "done" THEN sem - 1 ELSE sem
             /\ q.pc = "done" => sem' < concurrencyLimit]_vars

\* The paths a goroutine will still touch: those its deferred removals
\* name, and the .mp3 path while downloadAudioFromYoutube works on it
Uses(r) ==
    { r.defers[k] : k \in 1..Len(r.defers) }
    \cup (IF r.pc \in {"y_remove", "y_run", "y_check"} THEN {r.mp3} ELSE {})

\* C19: no two goroutines use the same path at the same time, in the video
\* flow no more than in the voice flow.
C19_PathsUnique ==
    \A r, q \in Live : r # q => Uses(r) \cap Uses(q) = {}

\* ------------------------------------------- a link with a voice note
\* A message whose Text is a link and whose Voice is set: main() tests the
\* two fields one after the other (lines 618-628).
LinkWithVoice == Msg("", <<"youtu.be/", "-">>, TRUE)

NextLinkWithVoice ==
    \/ Spawn(LinkWithVoice, 1)
    \/ \E r \in Live : Acquire(r)
    \/ \E r \in Live : Dispatch(r)
    \/ \E r \in Live : VoiceCreateOga(r)
    \/ \E r \in Live : VoiceDownload(r)
    \/ \E r \in Live : VoiceCreateWav(r)
    \/ \E r \in Live : VoiceConvert(r)
    \/ \E r \in Live : VoiceRecognize(r)
    \/ \E r \in Live : YtStatus(r)
    \/ \E r \in Live : YtCreateTemp(r)
    \/ \E r \in Live : YtRemovePlaceholder(r)
    \/ \E r \in Live : YtRun(r)
    \/ \E r \in Live : YtCheck(r)
    \/ \E r \in Live : YtRecognize(r)
    \/ \E r \in Live : YtSummarize(r)
    \/ \E r \in Live : RunDeferred(r)
    \/ \E r \in Live : Release(r)

SpecLinkWithVoice == Init /\ [][NextLinkWithVoice]_vars

\* The goroutine has entered handleYoutubeVideoInfoProcessing
EnteredVideo(r) == "processing started" \in Texts(r)

\* The goroutine has entered handleVoiceMessage and is past its first statement
EnteredVoice(r) ==
    \/ r.handler = "voice"
    \/ "server error: no temp file for the audio" \in Texts(r)
    \/ \E k \in 1..Len(r.calls) : r.calls[k].op = "downloadFile"

C18_FilesCovered ==
    \A r \in Live : r.id # 0 =>
        \A p \in Owned(r.id) :
            \/ \E k \in 1..Len(r.defers) : r.defers[k] = p
            \/ r.pc \in {"y_remove", "y_run", "y_check"} /\ p = r.mp3

\* ------------------------------------------------ the flood, scheduled
\* The Go scheduler runs every goroutine that can run, a send on the channel
\* goes through once the channel has room, and every external call returns:
\* each step of a handler that stays possible is taken. Nothing obliges a
\* further update to arrive.
FairFlood ==
    /\ WF_vars(\E r \in Live : Acquire(r))
    /\ WF_vars(\E r \in Live : Dispatch(r))
    /\ WF_vars(\E r \in Live : VoiceCreateOga(r))
    /\ WF_vars(\E r \in Live : VoiceDownload(r))
    /\ WF_vars(\E r \in Live : VoiceCreateWav(r))
    /\ WF_vars(\E r \in Live : VoiceConvert(r))
    /\ WF_vars(\E r \in Live : VoiceRecognize(r))
    /\ WF_vars(\E r \in Live : RunDeferred(r))
    /\ WF_vars(\E r \in Live : Release(r))

SpecFloodFair == Init /\ [][NextFlood]_vars /\ FairFlood

\* A step of goroutine r once it holds a token
HandlerStep(r) ==
    \/ Dispatch(r)
    \/ VoiceCreateOga(r)
    \/ VoiceDownload(r)
    \/ VoiceCreateWav(r)
    \/ VoiceConvert(r)
    \/ VoiceRecognize(r)
    \/ RunDeferred(r)
    \/ Release(r)

\* A goroutine that holds a token can always take its next step; one that
\* waits at the gate can pass, or some goroutine that holds a token can step.
OnlyGateBlocks ==
    \A r \in Live :
        /\ r.pc \notin {"acquire", "done"} => ENABLED HandlerStep(r)
        /\ r.pc = "acquire" =>
              \/ ENABLED Acquire(r)
              \/ \E q \in Live : q.pc \notin {"acquire", "done"} /\ ENABLED HandlerStep(q)

\* C20: the send on the channel is the only place where a goroutine waits
\* for others, so that the goroutines are never all blocked; and a goroutine
\* that waits at the gate gets its token: the voice run is admitted, and the
\* gate's queue empties.
C20_WaitingIsAdmitted ==
    /\ []OnlyGateBlocks
    /\ (\E r \in Live : r.msg.voice /\ r.pc = "acquire")
          ~> (\E r \in Live : r.msg.voice /\ r.pc # "acquire")
    /\ (\E r \in Live : r.pc = "acquire") ~> (\A r \in Live : r.pc # "acquire")

\* The voice run waits at the gate while ten other goroutines hold its tokens.
C20_VoiceWaitsAtFullGate ==
    /\ sem = concurrencyLimit
    /\ \E r \in Live : r.msg.voice /\ r.pc = "acquire"

\* ------------------------------------------------- the cookies file
\* Video links, each sent when the one before has been dealt with, under
\* either configuration of YoutubeCookiesPath, with the file at that path put
\* there or taken away at any moment by whoever runs the bot.
CookiesConfigs == { NoCookiesConfig, [YoutubeCookiesPath |-> "cookies.txt"] }

InitCookies ==
    /\ runs = EmptyBag
    /\ spawned = 0
    /\ started = 0
    /\ sem = 0
    /\ disk = [p \in Paths |-> Absent]
    /\ probe = NoProbe
    /\ delivered = NoDelivery
    /\ cfg \in CookiesConfigs
    /\ cookieFile = FALSE
    /\ outbox = NoOutbox

CookieFileChanges ==
    /\ cfg.YoutubeCookiesPath # ""
    /\ cookieFile' = ~cookieFile
    /\ UNCHANGED <<runs, spawned, started, sem, disk, probe, delivered, cfg, outbox>>

LinkMessage == Msg("", <<"youtu.be/", "-">>, FALSE)

NextCookies ==
    \/ (\A r \in Live : r.pc = "done") /\ Spawn(LinkMessage, MaxUpdates)
    \/ CookieFileChanges
    \/ \E r \in Live : Acquire(r)
    \/ \E r \in Live : Dispatch(r)
    \/ \E r \in Live : YtStatus(r)
    \/ \E r \in Live : YtCreateTemp(r)
    \/ \E r \in Live : YtRemovePlaceholder(r)
    \/ \E r \in Live : YtRun(r)
    \/ \E r \in Live : YtCheck(r)
    \/ \E r \in Live : YtRecognize(r)
    \/ \E r \in Live : YtSummarize(r)
    \/ \E r \in Live : RunDeferred(r)
    \/ \E r \in Live : Release(r)

SpecCookies == InitCookies /\ [][NextCookies]_vars

\* The goroutine has been through downloadAudioFromYoutube's building of the
\* arguments
BuiltArgs(r) == r.cookies.check # "none"

C22_NonZeroExitCleansUp ==
    [][\A r \in Live :
          r.pc = "y_check" /\ ~r.runOk /\ r \notin DOMAIN runs'
          => \E q \in DOMAIN runs' :
                /\ q.id = r.id
                /\ q.acquireErr = "yt-dlp failed"
                /\ q.result = "Failed"
                /\ q.pc \notin {"y_recognize", "y_summarize"}
                /\ \A k \in 1..Len(q.calls) : q.calls[k].op # "recognizeSpeech"
                /\ disk'[r.mp3] = Absent]_vars

\* The goroutine has done nothing yet: no reply, no component call, no
\* subprocess, no file, no pipeline run
Untouched(r) ==
    /\ r.id = 0 /\ r.chat = <<>> /\ r.calls = <<>> /\ r.tool = <<>>
    /\ r.made = 0 /\ r.removes = 0 /\ r.result = "none"

\* Goroutine r takes the step: one record r fewer in the bag
Steps(r) == CopiesIn(r, runs') < CopiesIn(r, runs)

\* C23: the tokens in the semaphore are as many as the goroutines between
\* their send on the channel and their deferred receive; a goroutine's send
\* adds one token, its end takes one away, whichever way the handler went
\* (command, menu button, voice, video link, unhandled text), and nothing
\* else it does changes the count; a goroutine that has not sent yet has done
\* nothing, and one that has ended does nothing more.
C23_SlotAccounting ==
    /\ [](sem = Holding /\ \A r \in Live : r.pc = "acquire" => Untouched(r))
    /\ [][\A r \in Live : Steps(r) =>
             /\ r.pc # "done"
             /\ sem' = IF r.pc = "acquire" THEN sem + 1
                       ELSE IF r.pc = "release" THEN sem - 1 ELSE sem]_vars

\* One goroutine has ended after its pipeline run failed and has given its
\* token back, and another is in a pipeline stage, holding the one token in
\* the semaphore.
C23_OneEndedOneHolding ==
    /\ sem = 1
    /\ \E r \in Live : r.pc = "done" /\ r.result = "Failed"
    /\ \E r \in Live : r.pc \in {"v_convert", "y_run"}

\* ------------------------------------------------ the length of a reply
\* A string handed to bot.Send, by its length as len() counts it (bytes) and
\* whether it ends in an appended "...".
Str(len, dots) == [len |-> len, dots |-> dots]

\* The length of the fixed part of each reply text that embeds another
\* (lines 411, 428, 446, 452), and of the fixed replies (229, 235).
FixedLen(reply) ==
    CASE reply = "download failed" -> 63
      [] reply = "recognize failed" -> 67
      [] reply = "summary failed" -> 97
      [] reply = "finalReply" -> 82
      [] reply = "voice recognize failed" -> 50
      [] reply = "empty voice transcript" -> 121

\* if len(msg.Text) > maxMessageTextLength
\*     { msg.Text = msg.Text[:maxMessageTextLength-3] + "..." }
\* (lines 461-463, 470-472, 485-487)
truncated(len) ==
    IF len > maxMessageTextLength
    THEN Str((maxMessageTextLength - 3) + 3, TRUE)
    ELSE Str(len, FALSE)

\* sendOrEditMessage (lines 457-493), by the texts it hands to bot.Send: the
\* edit or the new message, and the new message again when the edit failed.
sendOrEditMessageTexts(messageIDToEdit, len, editOk) ==
    IF messageIDToEdit # 0 /\ ~editOk
    THEN << truncated(len), truncated(len) >>
    ELSE << truncated(len) >>

\* The lengths a transcript, a summary or an error's text can have
TextLengths == {0, 1, 4000, 4014, 4015, 4093, 4096, 4097, 9000}

VoiceReplies == {"recognizedText", "voice recognize failed"}

VideoReplies == {"download failed", "recognize failed", "summary failed", "finalReply"}

InitText ==
    /\ runs = EmptyBag
    /\ spawned = 0
    /\ started = 0
    /\ sem = 0
    /\ disk = [p \in Paths |-> Absent]
    /\ probe = NoProbe
    /\ delivered = NoDelivery
    /\ cfg = NoCookiesConfig
    /\ cookieFile = FALSE
    /\ outbox \in { Outbox("voice", rp, n, 0) : rp \in VoiceReplies, n \in TextLengths }
               \cup { Outbox("video", rp, n, id) :
                        rp \in VideoReplies, n \in TextLengths, id \in {0, 1} }

\* handleVoiceMessage's replies after recognizeSpeech (lines 227-240): the
\* fixed text on an error; otherwise the recognized text, or the fixed text
\* when it is empty, in a tgbotapi.NewMessage handed to bot.Send as it is.
VoiceSends ==
    /\ outbox.flow = "voice" /\ ~outbox.replied
    /\ LET len == IF outbox.reply = "voice recognize failed" THEN FixedLen(outbox.reply)
                  ELSE IF outbox.n = 0 THEN FixedLen("empty voice transcript")
                  ELSE outbox.n
       IN  outbox' = [outbox EXCEPT !.replied = TRUE, !.text = len,
                                    !.sent = << Str(len, FALSE) >>]
    /\ UNCHANGED <<runs, spawned, started, sem, disk, probe, delivered, cfg, cookieFile>>

\* handleYoutubeVideoInfoProcessing's replies that embed a text (lines 411,
\* 428, 446, 452): fmt.Sprintf of the fixed part and the text, handed to
\* sendOrEditMessage.
VideoSends ==
    /\ outbox.flow = "video" /\ ~outbox.replied
    /\ \E editOk \in BOOLEAN :
        LET len == FixedLen(outbox.reply) + outbox.n IN
        outbox' = [outbox EXCEPT !.replied = TRUE, !.text = len,
            !.sent = sendOrEditMessageTexts(outbox.messageIDToEdit, len, editOk)]
    /\ UNCHANGED <<runs, spawned, started, sem, disk, probe, delivered, cfg, cookieFile>>

NextText == VoiceSends \/ VideoSends

SpecText == InitText /\ [][NextText]_vars

\* C24: every text a handler hands to bot.Send, in the voice flow and in the
\* video flow, is at most maxMessageTextLength long: a text within the limit
\* is sent whole, a longer one as its first maxMessageTextLength - 3
\* characters and "...".
C24_RepliesWithinLimit ==
    outbox.replied =>
        \A k \in 1..Len(outbox.sent) :
            /\ outbox.sent[k].len <= maxMessageTextLength
            /\ outbox.sent[k] =
                  IF outbox.text > maxMessageTextLength
                  THEN Str(maxMessageTextLength, TRUE)
                  ELSE Str(outbox.text, FALSE)
====
